---------------------------- MODULE Spec2Model ----------------------------
(***************************************************************************)
(* Session orchestration core of the server-orchestrator:                  *)
(*   services/SessionManager.ts      the JSON-file session store           *)
(*   routes/recording.ts             start / chunk / events / stop         *)
(*   routes/session.ts               delete / patch                        *)
(*   services/ProcessingPipeline.ts  the pipeline run started by stop      *)
(*                                                                         *)
(* Granularity.  The server is one Node.js process: code between two       *)
(* awaits runs without interruption, and every await on file or network    *)
(* I/O is a point where other handlers run.  One action of this module is  *)
(* the effect of one awaited I/O operation (a read of the store file, a    *)
(* write of it, a gateway call returning) together with the synchronous    *)
(* code that follows it up to the next awaited I/O.  A request's arrival   *)
(* has no effect of its own and is folded into its first I/O.              *)
(***************************************************************************)
EXTENDS Integers, Sequences, FiniteSets, TLC

(* ------------------------------ bounds --------------------------------- *)

\* sessions the start handler may create (their ids are 1..MaxSessions)
MaxSessions == 2
\* request handlers and pipeline runs in flight at the same time
MaxProcs == 2
\* requests the server receives in one behaviour
MaxRequests == 3
\* the highest chunkIndex a client sends (indices are 0..MaxIndex)
MaxIndex == 2
\* calls made on a service directly (ChunkManager, SessionManager) in one behaviour
MaxCalls == 5

\* the connected dashboard clients, and the subscribe / unsubscribe
\* messages they send in all
MaxObservers == 1
MaxMessages == 2
\* DOM events the content script captures
MaxEvents == 2
\* fetch calls of sendEventBatch in flight at a time
MaxBatches == 1
Observers == 1 .. MaxObservers

Sessions == 1 .. MaxSessions
Procs == 1 .. MaxProcs
ChunkIndices == 0 .. MaxIndex

(* ------------------------------ values --------------------------------- *)

\* an optional string field that is absent from the record
Undefined == "undefined"
\* endTime absent (clock readings start at 1)
NoTime == 0
\* refinedScript absent; when present it is <<originalText, refinedText>>
NoScript == <<>>

\* DOM events a client may submit, one batch per request
EventBatches == {<<"click">>, <<"scroll", "input">>}

\* recording_${type}.webm, the artifact mergeChunks returns
MergedPath(type) == "recording_" \o type \o ".webm"

\* what the transcription gateway returns as rawText
TranscriptText == "hello"
\* what the enrichment gateway returns
RefinedText == "Hello."
SynthesizedPath == "synth.mp3"

\* messages of the errors the gateways throw
TranscribeError == "Deepgram transcription failed"
ProcessError == "audio-full-process failed"

VARIABLES
    file,        \* sessions.json: the persisted store, sessionId -> SessionData
    proc,        \* the request handlers and pipeline runs in flight, per slot
    emitted,     \* the io.emit calls made by the last step, in order
    replied,     \* the HTTP response sent by the last step, if any
    requests,    \* the number of requests received so far
    clock,       \* the next value Date.now() returns (each reading is later)
    nextId,      \* the next session id the start handler generates
    deleted,     \* the sessions for which deleteSession has returned true
    deepgramConfigured, \* DeepgramService.client !== null (fixed at construction)
    chunksMap,   \* ChunkManager.chunksMap: sessionId -> { video: [...], audio: [...] }
    disk,        \* the files of the recordings directory: path -> content
    returned,    \* the outcome of the last call made on a service directly
    merged,      \* the <<sessionId, type>> for which a mergeChunks has returned its path
    sockets,     \* the connected Socket.IO clients: the rooms each has joined
                 \* (and those it has left), what socket.emit has sent to each
    extension    \* the capture extension: the content script's trackingState, the
                 \* DOM_EVENT messages and the event batches it has sent

\* the state of the chunk aggregator
chunkVars == <<chunksMap, disk, returned, merged>>

vars == <<file, proc, emitted, replied, requests, clock, nextId, deleted, deepgramConfigured,
          sockets, extension, chunkVars>>

(* --------------------------- SessionManager ---------------------------- *)

\* the record the start handler passes to createSession; a field JavaScript
\* leaves undefined is present here with its absent value
NewSession(t) ==
    [ status |-> "recording", startTime |-> t, endTime |-> NoTime,
      events |-> <<>>, videoPath |-> Undefined, audioPath |-> Undefined,
      title |-> Undefined, description |-> Undefined,
      transcription |-> Undefined, refinedScript |-> NoScript,
      synthesizedAudioPath |-> Undefined, processedAt |-> Undefined,
      error |-> Undefined ]

\* (a merge in which the record's own fields win)
SpreadFirstWins(rec, updates) == rec

\* { ...rec, ...updates }
Spread(rec, updates) ==
    [f \in DOMAIN rec |-> IF f \in DOMAIN updates THEN updates[f] ELSE rec[f]]

\* an object literal with no properties
NoUpdates == [f \in {} |-> Undefined]

\* store.sessions[session.sessionId] = session
createSessionApply(store, id, session) ==
    [s \in DOMAIN store \cup {id} |-> IF s = id THEN session ELSE store[s]]

\* store.sessions[sessionId] = { ...store.sessions[sessionId], ...updates }
updateSessionApply(store, id, updates) ==
    [store EXCEPT ![id] = Spread(@, updates)]

\* (new events put in front)
appendEventsPrepended(store, id, events) ==
    [store EXCEPT ![id].events = events \o @]

\* store.sessions[sessionId].events = [...events, ...new]
appendEventsApply(store, id, events) ==
    [store EXCEPT ![id].events = @ \o events]

\* (a delete that leaves the record)
deleteSessionSkipped(store, id) == store

\* delete store.sessions[sessionId]
deleteSessionApply(store, id) ==
    [s \in DOMAIN store \ {id} |-> store[s]]

\* the properties of a session record that may be undefined, and the value
\* that stands for undefined in each
Optional ==
    {"endTime", "videoPath", "audioPath", "title", "description", "transcription",
     "refinedScript", "synthesizedAudioPath", "processedAt", "error"}

Absent(f) ==
    CASE f = "endTime" -> NoTime
      [] f = "refinedScript" -> NoScript
      [] OTHER -> Undefined

\* JSON.stringify: a property whose value is undefined is left out of the text
stringify(store) ==
    [s \in DOMAIN store |->
        [f \in {g \in DOMAIN store[s] :
                   ~(g \in Optional /\ store[s][g] = Absent(g))} |-> store[s][f]]]

\* JSON.parse: the objects of the text; a property the text does not have
\* reads as undefined
parse(text) ==
    [s \in DOMAIN text |->
        [f \in DOMAIN text[s] \cup Optional |->
            IF f \in DOMAIN text[s] THEN text[s][f] ELSE Absent(f)]]

\* saveSessions: the file holds the text of the store; it is kept here as
\* the object a later read parses from it
saveSessions(store) == parse(stringify(store))

\* loadSessions: the parsed content of the file at the moment of the read
loadSessions == file

\* a session as a caller sees it: its sessionId and its other properties
Entry(id, session) == [sessionId |-> id, session |-> session]

\* (the lookup of whichever record comes first)
getSessionFirst(store, id) ==
    IF DOMAIN store = {} THEN <<>>
    ELSE LET s == CHOOSE u \in DOMAIN store : \A v \in DOMAIN store : u <= v
         IN  <<Entry(s, store[s])>>

\* store.sessions[sessionId] || null (null is the empty sequence)
getSessionApply(store, id) ==
    IF id \in DOMAIN store THEN <<Entry(id, store[id])>> ELSE <<>>

\* (the comparator a.startTime - b.startTime)
Earliest(store) ==
    CHOOSE s \in DOMAIN store : \A u \in DOMAIN store : store[s].startTime <= store[u].startTime

\* the session the comparator b.startTime - a.startTime puts first
Latest(store) ==
    CHOOSE s \in DOMAIN store : \A u \in DOMAIN store : store[s].startTime >= store[u].startTime

RECURSIVE listSessionsApply(_)
\* Object.values(store.sessions).sort((a, b) => b.startTime - a.startTime)
listSessionsApply(store) ==
    IF DOMAIN store = {} THEN <<>>
    ELSE LET s == Latest(store)
         IN  <<Entry(s, store[s])>>
                \o listSessionsApply([u \in DOMAIN store \ {s} |-> store[u]])

(* ----------------------------- ChunkManager ---------------------------- *)

\* the extension before any recording: trackingState = { isTracking: false,
\* sessionId: null, events: [] }, no DOM_EVENT message waiting for the
\* background script (messages), no fetch of sendEventBatch in flight
\* (sending), no DOM event captured yet
NoExtension ==
    [ isTracking |-> FALSE, sessionId |-> 0, events |-> <<>>,
      messages |-> <<>>, sending |-> <<>>, captured |-> 0 ]

\* new Map(): no session has sent a chunk
NoSessions == <<>>
\* { video: [], audio: [] }
NoTypes == [video |-> <<>>, audio |-> <<>>]

\* the recordings directory holds no file
NoFiles == <<>>
NoPath == [dir |-> 0, name |-> "none", index |-> -1]

\* <recordingsDir>/<sessionId>/chunk_${chunkType}_${chunkIndex}.webm
ChunkFile(s, type, index) == [dir |-> s, name |-> "chunk_" \o type, index |-> index]
\* <recordingsDir>/<sessionId>/recording_${type}.webm
MergedFile(s, type) == [dir |-> s, name |-> MergedPath(type), index |-> -1]

\* the content of the chunk a client uploads with a chunkIndex: one unit of
\* media, named by the index
Payload(index) == <<index>>

\* the descriptor the chunk handler passes to addChunk (size is left out)
ChunkInfo(s, type, index) ==
    [index |-> index, type |-> type, path |-> ChunkFile(s, type, index)]
NoChunk == [index |-> -1, type |-> "none", path |-> NoPath]

RECURSIVE SortByIndex(_)

\* a descriptor takes its place after the descriptors that do not come after
\* it: Array.prototype.sort is stable
InsertByIndex(sorted, chunk) ==
    LET k == Cardinality({i \in DOMAIN sorted : sorted[i].index <= chunk.index})
    IN SubSeq(sorted, 1, k) \o <<chunk>> \o SubSeq(sorted, k + 1, Len(sorted))

\* (an array left in arrival order)
SortByIndexSkipped(chunks) == chunks

\* chunks.sort((a, b) => a.index - b.index)
SortByIndex(chunks) ==
    IF chunks = <<>> THEN <<>>
    ELSE InsertByIndex(SortByIndex(SubSeq(chunks, 1, Len(chunks) - 1)),
                       chunks[Len(chunks)])

\* addChunk: the entry of the session is made when it is not there, the
\* descriptor is pushed on the array of its type and the array is sorted
addChunkApply(map, s, chunk) ==
    LET seen == [x \in DOMAIN map \cup {s} |-> IF x \in DOMAIN map THEN map[x] ELSE NoTypes]
    IN [seen EXCEPT ![s][chunk.type] = SortByIndex(Append(@, chunk))]

\* a file is created or replaced, removed
WriteFile(files, path, content) ==
    [f \in DOMAIN files \cup {path} |-> IF f = path THEN content ELSE files[f]]
RemoveFile(files, path) == [f \in DOMAIN files \ {path} |-> files[f]]
\* fs.rm(sessionDir, { recursive: true, force: true })
RemoveDir(files, s) == [f \in {g \in DOMAIN files : g.dir # s} |-> files[f]]

\* what a file holds where nothing was written
Hole == -1
\* a write stream writes data at its own position in the file
WriteAt(content, offset, data) ==
    LET end == offset + Len(data)
        len == IF Len(content) > end THEN Len(content) ELSE end
    IN [i \in 1 .. len |->
          IF i > offset /\ i <= end THEN data[i - offset]
          ELSE IF i <= Len(content) THEN content[i] ELSE Hole]

\* the errors mergeChunks throws: no chunk is tracked, a chunk file is missing
NoChunksError == "No chunks found for session"
MissingFileError == "ENOENT"

\* the outcome of a call made on a service directly
\* (value: the sessions a call on the session store has returned)
NoReturn ==
    [call |-> "none", sessionId |-> 0, type |-> "none", result |-> "none", value |-> <<>>]
Return(call, s, type, result) ==
    [call |-> call, sessionId |-> s, type |-> type, result |-> result, value |-> <<>>]
ReturnValue(call, s, result, value) ==
    [call |-> call, sessionId |-> s, type |-> "none", result |-> result, value |-> value]

(* ------------------------------ slots ---------------------------------- *)

NoStore == <<>>

\* (the fields of a mergeChunks in flight are described with ChunkManager;
\* arg and updates are the argument of a direct call of appendEvents, updateSession)
\* a slot: the handler's position (pc), the store object it has read and
\* changed and will write (snap), and the locals of a pipeline run: the
\* session read by the stop handler (audioPath, domEvents), transcription.rawText,
\* the probe's answer, the caught error's message.  said, calls and wrote
\* record what the run has broadcast, which gateways it has called and which
\* status values and fields its own writes have persisted; missed, which of
\* its updateSession calls returned null.
Idle ==
    [ kind |-> "idle", pc |-> "idle", sid |-> 0, snap |-> NoStore,
      audioPath |-> Undefined, domEvents |-> <<>>, rawText |-> "",
      healthy |-> "unknown", errMsg |-> Undefined,
      said |-> <<>>, calls |-> <<>>, wrote |-> <<>>, fields |-> {}, missed |-> {},
      type |-> "none", live |-> TRUE, chunks |-> <<>>, pos |-> 0, cur |-> NoChunk,
      offset |-> 0, late |-> {}, fresh |-> FALSE, arg |-> <<>>, updates |-> "none" ]

Free(p) == proc[p].pc \in {"idle", "done"}

\* a request is served in the lowest free slot (slots are interchangeable)
FreeSlot(p) == Free(p) /\ \A q \in Procs : q < p => ~Free(q)

Accept(p) == FreeSlot(p) /\ requests < MaxRequests

\* a client names a session by the id the start handler has answered with
Known(s) ==
    /\ s < nextId
    /\ \A q \in Procs : ~(proc[q].kind = "start" /\ proc[q].sid = s)

Handler(kind, pc, id, store) ==
    [Idle EXCEPT !.kind = kind, !.pc = pc, !.sid = id, !.snap = store]

\* an HTTP response: the route, the session named, the status code
NoReply == [kind |-> "none", sessionId |-> 0, code |-> 0]
Reply(kind, id, code) == [kind |-> kind, sessionId |-> id, code |-> code]

Event(name, id, status, payload) ==
    [event |-> name, sessionId |-> id, status |-> status, payload |-> payload]

\* the dashboard clients connected over Socket.IO, none in any room yet
NoSockets ==
    [ joined |-> [o \in Observers |-> {}], left |-> [o \in Observers |-> {}],
      sent |-> [o \in Observers |-> <<>>], messages |-> 0 ]

Init ==
    /\ file = NoStore
    /\ proc = [p \in Procs |-> Idle]
    /\ emitted = <<>>
    /\ replied = NoReply
    /\ requests = 0
    /\ clock = 1
    /\ nextId = 1
    /\ deleted = {}
    /\ deepgramConfigured \in BOOLEAN
    /\ chunksMap = NoSessions
    /\ disk = NoFiles
    /\ returned = NoReturn
    /\ merged = {}
    /\ sockets = NoSockets
    /\ extension = NoExtension

(* ----------------------- POST /api/recording/start --------------------- *)

\* createSession reads the store and sets the new record in the object read
StartLoad(p) ==
    /\ Accept(p)
    /\ nextId <= MaxSessions
    /\ proc' = [proc EXCEPT ![p] =
                  Handler("start", "start_save", nextId,
                          createSessionApply(loadSessions, nextId, NewSession(clock)))]
    /\ nextId' = nextId + 1
    /\ clock' = clock + 1
    /\ requests' = requests + 1
    /\ emitted' = <<>>
    /\ replied' = NoReply
    /\ UNCHANGED <<file, deleted, deepgramConfigured, extension, sockets, chunkVars>>

\* saveSessions writes the object; the handler emits session_started and answers
StartSave(p) ==
    /\ proc[p].pc = "start_save"
    /\ file' = saveSessions(proc[p].snap)
    /\ emitted' = <<Event("session_started", proc[p].sid, Undefined, Undefined)>>
    /\ replied' = Reply("start", proc[p].sid, 200)
    /\ proc' = [proc EXCEPT ![p] = Idle]
    /\ UNCHANGED <<requests, clock, nextId, deleted, deepgramConfigured, extension, sockets, chunkVars>>

(* ----------------------- PATCH /api/sessions/:id ------------------------ *)

\* what a client may send as <<title, description>> ("" is left out of the
\* update: ...(title && { title }))
PatchBodies == {<<"Demo", "">>, <<"", "A demo">>}

PatchUpdates(title, description) ==
    (IF title # "" THEN [title |-> title] ELSE NoUpdates)
    @@ (IF description # "" THEN [description |-> description] ELSE NoUpdates)

\* updateSession reads the store; an unknown id answers 404 and writes nothing
PatchLoad(p, s, body) ==
    /\ Accept(p)
    /\ Known(s)
    /\ requests' = requests + 1
    /\ emitted' = <<>>
    /\ IF s \in DOMAIN loadSessions
       THEN /\ proc' = [proc EXCEPT ![p] =
                  Handler("patch", "patch_save", s,
                          updateSessionApply(loadSessions, s,
                                             PatchUpdates(body[1], body[2])))]
            /\ replied' = NoReply
       ELSE /\ proc' = [proc EXCEPT ![p] = Idle]
            /\ replied' = Reply("patch", s, 404)
    /\ UNCHANGED <<file, clock, nextId, deleted, deepgramConfigured, extension, sockets, chunkVars>>

PatchSave(p) ==
    /\ proc[p].pc = "patch_save"
    /\ file' = saveSessions(proc[p].snap)
    /\ proc' = [proc EXCEPT ![p] = Idle]
    /\ emitted' = <<>>
    /\ replied' = Reply("patch", proc[p].sid, 200)
    /\ UNCHANGED <<requests, clock, nextId, deleted, deepgramConfigured, extension, sockets, chunkVars>>

(* ----------------------- POST /api/recording/events -------------------- *)

\* appendEvents reads the store; it throws for an unknown id (answered 500)
EventsRequest(p, s, events) ==
    /\ Accept(p)
    /\ Known(s)
    /\ requests' = requests + 1
    /\ emitted' = <<>>
    /\ IF s \in DOMAIN loadSessions
       THEN /\ proc' = [proc EXCEPT ![p] =
                  [Handler("events", "events_save", s,
                           appendEventsApply(loadSessions, s, events))
                   EXCEPT !.arg = events]]
            /\ replied' = NoReply
       ELSE /\ proc' = [proc EXCEPT ![p] = Idle]
            /\ replied' = Reply("events", s, 500)
    /\ UNCHANGED <<file, clock, nextId, deleted, deepgramConfigured, sockets, chunkVars>>

\* a POST /events sent by any client other than the extension
EventsLoad(p, s, events) == EventsRequest(p, s, events) /\ UNCHANGED extension

\* saveSessions writes the object; appendEvents returns
EventsSave(p) ==
    /\ proc[p].pc = "events_save"
    /\ file' = saveSessions(proc[p].snap)
    /\ proc' = [proc EXCEPT ![p].pc = "events_file", ![p].snap = NoStore]
    /\ emitted' = <<>>
    /\ replied' = NoReply
    /\ UNCHANGED <<requests, clock, nextId, deleted, deepgramConfigured, extension, sockets, chunkVars>>

\* <recordingsDir>/<sessionId>/dom_events.json
EventsPath(s) == [dir |-> s, name |-> "dom_events.json", index |-> -1]

\* deleteSession has removed the directory of the session (fs.rm has returned)
Removed(s) ==
    \/ s \in deleted
    \/ \E q \in Procs : proc[q].pc = "delete_save" /\ proc[q].sid = s

\* the directory of the session is there: ensureSessionDir has made it when
\* the session was started and no delete has removed it, or an upload has
\* made it again (multer's destination) and left its files in it
SessionDir(s) == ~Removed(s) \/ \E f \in DOMAIN disk : f.dir = s

\* saveEventsFile: fs.writeFile(eventsPath, JSON.stringify({ sessionId, events, savedAt }))
saveEventsFile(files, s, events) == WriteFile(files, EventsPath(s), events)

\* saveEventsFile writes the events of the request body and the handler
\* answers; the write throws where the directory is gone (answered 500)
EventsFile(p) ==
    /\ proc[p].pc = "events_file"
    /\ IF SessionDir(proc[p].sid)
       THEN /\ disk' = saveEventsFile(disk, proc[p].sid, proc[p].arg)
            /\ replied' = Reply("events", proc[p].sid, 200)
       ELSE /\ disk' = disk
            /\ replied' = Reply("events", proc[p].sid, 500)
    /\ proc' = [proc EXCEPT ![p] = Idle]
    /\ emitted' = <<>>
    /\ UNCHANGED <<file, requests, clock, nextId, deleted, deepgramConfigured, extension, sockets,
                   chunksMap, returned, merged>>

(* ----------------------- ChunkManager.mergeChunks --------------------- *)

\* a mergeChunks in flight holds: the array it iterates (the array of the
\* map while live; chunks, once another merge has put a new array in its
\* place), pos, the number of descriptors its loop has taken, cur, the one it
\* is on, offset, the position of its write stream.  late records the
\* descriptors addChunk has pushed for its session and type since it began,
\* fresh, whether the descriptors tracked when it began had distinct indices
\* and each its file on disk.
Merging(q, s, type) ==
    /\ proc[q].pc \in {"merge_rename", "merge_pipe", "merge_unlink"}
    /\ proc[q].sid = s
    /\ proc[q].type = type

Chunks(p) ==
    IF proc[p].live THEN chunksMap[proc[p].sid][proc[p].type] ELSE proc[p].chunks

\* the slots, once addChunk has pushed a descriptor
Noted(s, chunk) ==
    [q \in Procs |->
        IF Merging(q, s, chunk.type) THEN [proc[q] EXCEPT !.late = @ \cup {chunk}]
                                     ELSE proc[q]]

Fresh(chunks, files) ==
    /\ \A i \in DOMAIN chunks : chunks[i].path \in DOMAIN files
    /\ \A i, j \in DOMAIN chunks : i # j => chunks[i].index # chunks[j].index

\* (a throw the chunk handler answers with a success)
ThrownSwallowed(kind, s, type, message) ==
    /\ merged' = merged
    /\ replied' = IF kind = "chunk" THEN Reply("chunk", s, 200) ELSE NoReply
    /\ returned' = IF kind = "chunk" THEN returned
                                     ELSE Return("mergeChunks", s, type, message)

\* mergeChunks throws: the chunk handler answers 500, a direct caller gets the error
Thrown(kind, s, type, message) ==
    /\ merged' = merged
    /\ IF kind = "chunk"
       THEN replied' = Reply("chunk", s, 500) /\ returned' = returned
       ELSE replied' = NoReply /\ returned' = Return("mergeChunks", s, type, message)

\* mergeChunks returns outputPath: the chunk handler goes on with updateSession
Merged(p) ==
    IF proc[p].kind = "chunk"
    THEN [Handler("chunk", "chunk_load", proc[p].sid, NoStore)
          EXCEPT !.type = proc[p].type]
    ELSE Idle

Resolved(p) ==
    /\ merged' = merged \cup {<<proc[p].sid, proc[p].type>>}
    /\ replied' = NoReply
    /\ returned' = IF proc[p].kind = "chunk"
                   THEN returned
                   ELSE Return("mergeChunks", proc[p].sid, proc[p].type,
                               MergedPath(proc[p].type))

\* (a merge that makes an empty artifact of nothing)
NoChunksIgnored(p, kind, s, type, map, files, slots) ==
    /\ chunksMap' = map
    /\ disk' = WriteFile(files, MergedFile(s, type), <<>>)
    /\ proc' = [slots EXCEPT ![p] = Idle]
    /\ replied' = NoReply
    /\ returned' = Return("mergeChunks", s, type, MergedPath(type))
    /\ merged' = merged \cup {<<s, type>>}

\* throw new Error(`No ${type} chunks found for session ${sessionId}`)
NoChunks(p, kind, s, type, map, files, slots) ==
    /\ chunksMap' = map
    /\ disk' = files
    /\ proc' = [slots EXCEPT ![p] = Idle]
    /\ Thrown(kind, s, type, NoChunksError)

\* mergeChunks(s, type) up to its first await, in slot p, on the tracking
\* state map, the files and the slots its caller leaves: it throws when
\* nothing is tracked, renames a single chunk, and otherwise opens the write
\* stream of the artifact and the read stream of the first chunk
MergeStart(p, kind, s, type, map, files, slots) ==
    IF s \notin DOMAIN map \/ Len(map[s][type]) = 0
    THEN NoChunks(p, kind, s, type, map, files, slots)
    ELSE LET chunks == map[s][type]
             merge == [Handler(kind, "merge_rename", s, NoStore)
                       EXCEPT !.type = type, !.cur = chunks[1], !.pos = 1,
                              !.fresh = Fresh(chunks, files)]
         IN /\ chunksMap' = map
            /\ IF Len(chunks) = 1
               THEN /\ disk' = files
                    /\ proc' = [slots EXCEPT ![p] = merge]
               ELSE /\ disk' = WriteFile(files, MergedFile(s, type), <<>>)
                    /\ proc' = [slots EXCEPT ![p] = [merge EXCEPT !.pc = "merge_pipe"]]
            /\ replied' = NoReply
            /\ returned' = IF kind = "chunk" THEN returned ELSE NoReturn
            /\ merged' = merged

\* fs.rename(chunks[0].path, outputPath) returns: mergeChunks returns, and the
\* descriptor stays in the array
MergeRename(p) ==
    /\ proc[p].pc = "merge_rename"
    /\ LET from == proc[p].cur.path
           to == MergedFile(proc[p].sid, proc[p].type)
       IN IF from \in DOMAIN disk
          THEN /\ disk' = WriteFile(RemoveFile(disk, from), to, disk[from])
               /\ proc' = [proc EXCEPT ![p] = Merged(p)]
               /\ Resolved(p)
          ELSE /\ disk' = disk
               /\ proc' = [proc EXCEPT ![p] = Idle]
               /\ Thrown(proc[p].kind, proc[p].sid, proc[p].type, MissingFileError)
    /\ emitted' = <<>>
    /\ UNCHANGED <<file, requests, clock, nextId, deleted, deepgramConfigured, extension, sockets, chunksMap>>

\* the read stream of the chunk ends, its content piped to the write stream,
\* or fails on a file that is not there, and mergeChunks throws
MergePipe(p) ==
    /\ proc[p].pc = "merge_pipe"
    /\ LET from == proc[p].cur.path
           to == MergedFile(proc[p].sid, proc[p].type)
       IN IF from \in DOMAIN disk
          THEN /\ disk' = IF to \in DOMAIN disk
                          THEN [disk EXCEPT ![to] = WriteAt(@, proc[p].offset, disk[from])]
                          ELSE disk
               /\ proc' = [proc EXCEPT ![p].pc = "merge_unlink",
                                       ![p].offset = @ + Len(disk[from])]
               /\ replied' = NoReply
               /\ returned' = returned
               /\ merged' = merged
          ELSE /\ disk' = disk
               /\ proc' = [proc EXCEPT ![p] = Idle]
               /\ Thrown(proc[p].kind, proc[p].sid, proc[p].type, MissingFileError)
    /\ emitted' = <<>>
    /\ UNCHANGED <<file, requests, clock, nextId, deleted, deepgramConfigured, extension, sockets, chunksMap>>

\* fs.unlink(chunk.path) returns (its errors are dropped): the loop takes the
\* next descriptor of the array; at the end of the array the write stream is
\* ended, a new empty array takes the place of the session's array of that
\* type, and mergeChunks returns
MergeUnlink(p) ==
    /\ proc[p].pc = "merge_unlink"
    /\ disk' = RemoveFile(disk, proc[p].cur.path)
    /\ LET s == proc[p].sid
           type == proc[p].type
       IN IF proc[p].pos < Len(Chunks(p))
          THEN /\ proc' = [proc EXCEPT ![p].pc = "merge_pipe",
                                       ![p].cur = Chunks(p)[proc[p].pos + 1],
                                       ![p].pos = @ + 1]
               /\ chunksMap' = chunksMap
               /\ replied' = NoReply
               /\ returned' = returned
               /\ merged' = merged
          ELSE /\ chunksMap' = [chunksMap EXCEPT ![s][type] = <<>>]
               /\ proc' = [q \in Procs |->
                             IF q = p THEN Merged(p)
                             ELSE IF Merging(q, s, type) /\ proc[q].live
                                  THEN [proc[q] EXCEPT !.live = FALSE,
                                                       !.chunks = chunksMap[s][type]]
                                  ELSE proc[q]]
               /\ Resolved(p)
    /\ emitted' = <<>>
    /\ UNCHANGED <<file, requests, clock, nextId, deleted, deepgramConfigured, extension, sockets>>

\* a caller stores a chunk and calls addChunk(s, { index, type, path })
AddChunk(s, type, index) ==
    /\ requests < MaxCalls
    /\ requests' = requests + 1
    /\ LET chunk == ChunkInfo(s, type, index) IN
       /\ disk' = WriteFile(disk, chunk.path, Payload(index))
       /\ chunksMap' = addChunkApply(chunksMap, s, chunk)
       /\ proc' = Noted(s, chunk)
    /\ returned' = Return("addChunk", s, type, "void")
    /\ merged' = merged
    /\ emitted' = <<>>
    /\ replied' = NoReply
    /\ UNCHANGED <<file, clock, nextId, deleted, deepgramConfigured, extension, sockets>>

\* a caller calls mergeChunks(s, type)
MergeCall(p, s, type) ==
    /\ FreeSlot(p)
    /\ requests < MaxCalls
    /\ requests' = requests + 1
    /\ MergeStart(p, "merge", s, type, chunksMap, disk, proc)
    /\ emitted' = <<>>
    /\ UNCHANGED <<file, clock, nextId, deleted, deepgramConfigured, extension, sockets>>

(* ----------------------- POST /api/recording/chunk --------------------- *)

ChunkTypes == {"video", "audio"}

\* (an update that sets no path)
PathUpdateNone(type) == NoUpdates

\* { videoPath: mergedPath } or { audioPath: mergedPath }
PathUpdate(type) ==
    IF type = "video" THEN [videoPath |-> MergedPath(type)]
                      ELSE [audioPath |-> MergedPath(type)]

\* multer has stored the chunk as chunk_${chunkType}_${chunkIndex}.webm; the
\* handler calls addChunk and, for a last chunk, mergeChunks; otherwise it
\* answers
ChunkUpload(p, s, type, index, isLastChunk) ==
    /\ Accept(p)
    /\ Known(s)
    /\ requests' = requests + 1
    /\ emitted' = <<>>
    /\ LET chunk == ChunkInfo(s, type, index)
           files == WriteFile(disk, chunk.path, Payload(index))
           map == addChunkApply(chunksMap, s, chunk)
       IN IF isLastChunk
          THEN MergeStart(p, "chunk", s, type, map, files, Noted(s, chunk))
          ELSE /\ chunksMap' = map
               /\ disk' = files
               /\ proc' = Noted(s, chunk)
               /\ replied' = Reply("chunk", s, 200)
               /\ returned' = returned
               /\ merged' = merged
    /\ UNCHANGED <<file, clock, nextId, deleted, deepgramConfigured, extension, sockets>>

\* the upload of a last chunk, once mergeChunks has returned the artifact:
\* updateSession reads the store; its null for an unknown id is not looked at
ChunkLoad(p) ==
    /\ proc[p].pc = "chunk_load"
    /\ emitted' = <<>>
    /\ LET s == proc[p].sid
           type == proc[p].type
       IN IF s \in DOMAIN loadSessions
          THEN /\ proc' = [proc EXCEPT ![p] =
                     [Handler("chunk", "chunk_save", s,
                              updateSessionApply(loadSessions, s, PathUpdate(type)))
                      EXCEPT !.fields = DOMAIN PathUpdate(type), !.type = type]]
               /\ replied' = NoReply
          ELSE /\ proc' = [proc EXCEPT ![p] = Idle]
               /\ replied' = Reply("chunk", s, 200)
    /\ UNCHANGED <<file, requests, clock, nextId, deleted, deepgramConfigured, extension, sockets, chunkVars>>

ChunkSave(p) ==
    /\ proc[p].pc = "chunk_save"
    /\ file' = saveSessions(proc[p].snap)
    /\ proc' = [proc EXCEPT ![p] = Idle]
    /\ emitted' = <<>>
    /\ replied' = Reply("chunk", proc[p].sid, 200)
    /\ UNCHANGED <<requests, clock, nextId, deleted, deepgramConfigured, extension, sockets, chunkVars>>

(* ------------------------ GET /api/sessions/:id ------------------------ *)

\* getSession reads the store; the handler answers 404 for null, else the record
SessionGet(p, s) ==
    /\ Accept(p)
    /\ Known(s)
    /\ requests' = requests + 1
    /\ emitted' = <<>>
    /\ proc' = [proc EXCEPT ![p] = Idle]
    /\ replied' = Reply("get", s, IF s \in DOMAIN loadSessions THEN 200 ELSE 404)
    /\ UNCHANGED <<file, clock, nextId, deleted, deepgramConfigured, extension, sockets, chunkVars>>

(* ----------------------- DELETE /api/sessions/:id ---------------------- *)

\* deleteSession reads the store; false for an unknown id (answered 404)
DeleteLoad(p, s) ==
    /\ Accept(p)
    /\ Known(s)
    /\ requests' = requests + 1
    /\ emitted' = <<>>
    /\ IF s \in DOMAIN loadSessions
       THEN /\ proc' = [proc EXCEPT ![p] =
                  Handler("delete", "delete_rm", s,
                          deleteSessionApply(loadSessions, s))]
            /\ replied' = NoReply
       ELSE /\ proc' = [proc EXCEPT ![p] = Idle]
            /\ replied' = Reply("delete", s, 404)
    /\ UNCHANGED <<file, clock, nextId, deleted, deepgramConfigured, extension, sockets, chunkVars>>

\* fs.rm of the session directory returns; the record is deleted in the
\* object read and saveSessions is called
DeleteRm(p) ==
    /\ proc[p].pc = "delete_rm"
    /\ disk' = RemoveDir(disk, proc[p].sid)
    /\ proc' = [proc EXCEPT ![p].pc = "delete_save"]
    /\ emitted' = <<>>
    /\ replied' = NoReply
    /\ UNCHANGED <<file, requests, clock, nextId, deleted, deepgramConfigured, extension, sockets,
                   chunksMap, returned, merged>>

\* saveSessions, return true; the handler emits session_deleted and answers
DeleteSave(p) ==
    /\ proc[p].pc = "delete_save"
    /\ file' = saveSessions(proc[p].snap)
    /\ deleted' = deleted \cup {proc[p].sid}
    /\ emitted' = <<Event("session_deleted", proc[p].sid, Undefined, Undefined)>>
    /\ replied' = Reply("delete", proc[p].sid, 200)
    /\ proc' = [proc EXCEPT ![p] = Idle]
    /\ UNCHANGED <<requests, clock, nextId, deepgramConfigured, extension, sockets, chunkVars>>

(* ----------------------- POST /api/recording/stop ---------------------- *)

StopUpdates(t) == [endTime |-> t, status |-> "processing"]

\* emitStatus(sessionId, status, message)
emitStatus(id, status, message) == Event("session_status", id, status, message)

\* what a run records of the events it broadcasts: the status of a
\* session_status, the name of any other event
Told(events) ==
    [i \in DOMAIN events |->
        IF events[i].event = "session_status" THEN events[i].status
                                              ELSE events[i].event]

\* (the test of the audio path alone)
TranscribesWithAudio(audioPath) == audioPath # Undefined

\* session.audioPath && this.deepgram.isConfigured()
Transcribes(audioPath) == audioPath # Undefined /\ deepgramConfigured

\* process(session) up to its first await: the transcribing status, and the
\* note that transcription is skipped when Deepgram is not configured
processEntry(id, audioPath) ==
    <<emitStatus(id, "transcribing", "Transcribing audio with Deepgram...")>>
    \o (IF ~Transcribes(audioPath) /\ ~deepgramConfigured
        THEN <<emitStatus(id, "transcribing", "Deepgram not configured, skipping...")>>
        ELSE <<>>)

\* updateSession(sessionId, { endTime: Date.now(), status: 'processing' }) reads
\* the store; its null for an unknown id is not looked at
StopLoad(p, s) ==
    /\ Accept(p)
    /\ Known(s)
    /\ requests' = requests + 1
    /\ clock' = clock + 1
    /\ proc' = [proc EXCEPT ![p] =
                  IF s \in DOMAIN loadSessions
                  THEN Handler("stop", "stop_save", s,
                               updateSessionApply(loadSessions, s, StopUpdates(clock)))
                  ELSE [Handler("stop", "stop_get", s, NoStore)
                        EXCEPT !.missed = {"stop_load"}]]
    /\ emitted' = <<>>
    /\ replied' = NoReply
    /\ UNCHANGED <<file, nextId, deleted, deepgramConfigured, extension, sockets, chunkVars>>

StopSave(p) ==
    /\ proc[p].pc = "stop_save"
    /\ file' = saveSessions(proc[p].snap)
    /\ proc' = [proc EXCEPT ![p].pc = "stop_get", ![p].snap = NoStore,
                            ![p].wrote = <<"processing">>,
                            ![p].fields = DOMAIN StopUpdates(0)]
    /\ emitted' = <<>>
    /\ replied' = NoReply
    /\ UNCHANGED <<requests, clock, nextId, deleted, deepgramConfigured, extension, sockets, chunkVars>>

\* (an answer that waits for the run)
ProcessingAwaited(id) == NoReply

\* res.json({ success: true, data: { sessionId, status: 'processing', ... } })
Processing(id) == Reply("stop", id, 200)

\* getSession reads the store: 404 when the session is not there; otherwise
\* the handler emits processing, starts pipeline.process(session) without
\* awaiting it, and answers.  The run goes on in the same slot.
StopGet(p) ==
    /\ proc[p].pc = "stop_get"
    /\ LET id == proc[p].sid IN
       IF id \notin DOMAIN loadSessions
       THEN /\ proc' = [proc EXCEPT ![p] = Idle]
            /\ emitted' = <<>>
            /\ replied' = Reply("stop", id, 404)
       ELSE LET session == loadSessions[id]
                events == <<emitStatus(id, "processing",
                                       "Recording stopped, starting processing...")>>
                          \o processEntry(id, session.audioPath)
            IN /\ emitted' = events
               /\ replied' = Processing(id)
               /\ proc' = [proc EXCEPT
                     ![p].kind = "pipeline",
                     ![p].pc = IF Transcribes(session.audioPath)
                               THEN "transcribe" ELSE "health",
                     ![p].audioPath = session.audioPath,
                     ![p].domEvents = session.events,
                     ![p].said = Told(events)]
    /\ UNCHANGED <<file, requests, clock, nextId, deleted, deepgramConfigured, extension, sockets, chunkVars>>

(* ----------------------- ProcessingPipeline.process -------------------- *)

ProcessedStamp == "toISOString"

\* the run of slot p goes on after an awaited call has returned
Continue(p, pc, events) ==
    [proc[p] EXCEPT !.pc = pc, !.snap = NoStore, !.said = @ \o Told(events)]

\* updateSession(sessionId, updates) of a run, its read: the record is merged
\* in the object read; for a session that is not there it returns null, which
\* process does not look at, and the run goes on (next, broadcasting events)
PipeRead(p, here, updates, save, next, events) ==
    /\ proc[p].pc = here
    /\ IF proc[p].sid \in DOMAIN loadSessions
       THEN /\ proc' = [proc EXCEPT
                  ![p].pc = save,
                  ![p].snap = updateSessionApply(loadSessions, proc[p].sid, updates)]
            /\ emitted' = <<>>
       ELSE /\ proc' = [proc EXCEPT ![p] =
                  [Continue(p, next, events) EXCEPT !.missed = @ \cup {here}]]
            /\ emitted' = events
    /\ replied' = NoReply
    /\ UNCHANGED <<file, requests, clock, nextId, deleted, deepgramConfigured, extension, sockets, chunkVars>>

\* ... and its write, after which the run goes on
PipeWrite(p, here, updates, next, events) ==
    /\ proc[p].pc = here
    /\ file' = saveSessions(proc[p].snap)
    /\ proc' = [proc EXCEPT ![p] =
                  [Continue(p, next, events) EXCEPT
                      !.wrote = Append(@, updates.status),
                      !.fields = @ \cup DOMAIN updates]]
    /\ emitted' = events
    /\ replied' = NoReply
    /\ UNCHANGED <<requests, clock, nextId, deleted, deepgramConfigured, extension, sockets, chunkVars>>

\* Step 1: deepgram.transcribeFile returns the transcription or throws
Transcribe(p) ==
    /\ proc[p].pc = "transcribe"
    /\ \E ok \in BOOLEAN :
         proc' = [proc EXCEPT
            ![p].calls = Append(@, "transcribeFile"),
            ![p].rawText = IF ok THEN TranscriptText ELSE @,
            ![p].errMsg = IF ok THEN @ ELSE TranscribeError,
            ![p].pc = IF ok THEN "transcription_load" ELSE "error_load"]
    /\ emitted' = <<>>
    /\ replied' = NoReply
    /\ UNCHANGED <<file, requests, clock, nextId, deleted, deepgramConfigured, extension, sockets, chunkVars>>

TranscriptionUpdates(p) ==
    [transcription |-> proc[p].rawText, status |-> "transcribing"]

TranscriptionReady(p) ==
    <<Event("transcription_ready", proc[p].sid, Undefined, proc[p].rawText)>>

TranscriptionLoad(p) ==
    PipeRead(p, "transcription_load", TranscriptionUpdates(p), "transcription_save",
             "health", TranscriptionReady(p))

TranscriptionSave(p) ==
    PipeWrite(p, "transcription_save", TranscriptionUpdates(p), "health",
              TranscriptionReady(p))

\* (a run that does not look at the probe's answer)
AfterHealthCheckIgnored(pythonHealthy) == "process_audio"

\* Step 2: what the run does on the probe's answer
AfterHealthCheck(pythonHealthy) ==
    IF pythonHealthy THEN "process_audio" ELSE "unavailable_load"

HealthStatus(id, pythonHealthy) ==
    IF pythonHealthy
    THEN emitStatus(id, "refining", "Refining script with Gemini AI...")
    ELSE emitStatus(id, "completed", "Processing complete (AI services unavailable)")

\* pythonClient.healthCheck returns true or false (it catches its errors)
HealthCheck(p) ==
    /\ proc[p].pc = "health"
    /\ \E pythonHealthy \in BOOLEAN :
         /\ emitted' = <<HealthStatus(proc[p].sid, pythonHealthy)>>
         /\ proc' = [proc EXCEPT ![p] =
               [Continue(p, AfterHealthCheck(pythonHealthy), emitted') EXCEPT
                   !.calls = Append(@, "healthCheck"),
                   !.healthy = IF pythonHealthy THEN "yes" ELSE "no"]]
    /\ replied' = NoReply
    /\ UNCHANGED <<file, requests, clock, nextId, deleted, deepgramConfigured, extension, sockets, chunkVars>>

UnavailableUpdates == [status |-> "completed", processedAt |-> ProcessedStamp]

SessionComplete(p) == <<Event("session_complete", proc[p].sid, Undefined, Undefined)>>

UnavailableLoad(p) ==
    PipeRead(p, "unavailable_load", UnavailableUpdates, "unavailable_save",
             "done", SessionComplete(p))

UnavailableSave(p) ==
    PipeWrite(p, "unavailable_save", UnavailableUpdates, "done", SessionComplete(p))

\* Step 3: pythonClient.processAudio returns its result or throws
\* the argument of pythonClient.processAudio: the run's transcript and the
\* events of the session object the stop handler passed to process
ProcessAudioRequest(p) ==
    [rawTranscript |-> proc[p].rawText, domEvents |-> proc[p].domEvents]

ProcessAudio(p) ==
    /\ proc[p].pc = "process_audio"
    /\ \E ok \in BOOLEAN :
         proc' = [proc EXCEPT
            ![p].calls = Append(@, "processAudio"),
            ![p].errMsg = IF ok THEN @ ELSE ProcessError,
            ![p].pc = IF ok THEN "refined_load" ELSE "error_load"]
    /\ emitted' = <<>>
    /\ replied' = NoReply
    /\ UNCHANGED <<file, requests, clock, nextId, deleted, deepgramConfigured, extension, sockets, chunkVars>>

RefinedScript(p) == <<proc[p].rawText, RefinedText>>

RefinedUpdates(p) == [refinedScript |-> RefinedScript(p), status |-> "synthesizing"]

RefinementReady(p) ==
    << Event("refinement_ready", proc[p].sid, Undefined, RefinedScript(p)),
       emitStatus(proc[p].sid, "synthesizing", "Generating AI voiceover with ElevenLabs...") >>

RefinedLoad(p) ==
    PipeRead(p, "refined_load", RefinedUpdates(p), "refined_save",
             "synthesized_load", RefinementReady(p))

RefinedSave(p) ==
    PipeWrite(p, "refined_save", RefinedUpdates(p), "synthesized_load",
              RefinementReady(p))

\* Step 4 and 5
SynthesizedUpdates ==
    [synthesizedAudioPath |-> SynthesizedPath, status |-> "completed",
     processedAt |-> ProcessedStamp]

SynthesisReady(p) ==
    << Event("synthesis_ready", proc[p].sid, Undefined, SynthesizedPath),
       emitStatus(proc[p].sid, "completed", "Processing complete!") >>
    \o SessionComplete(p)

SynthesizedLoad(p) ==
    PipeRead(p, "synthesized_load", SynthesizedUpdates, "synthesized_save",
             "done", SynthesisReady(p))

SynthesizedSave(p) ==
    PipeWrite(p, "synthesized_save", SynthesizedUpdates, "done", SynthesisReady(p))

\* (a catch block that records the status without the message)
ErrorUpdatesStatusOnly(p) == [status |-> "error"]

\* catch (error)
ErrorUpdates(p) == [status |-> "error", error |-> proc[p].errMsg]

ErrorEvent(p) == <<Event("error", proc[p].sid, Undefined, proc[p].errMsg)>>

ErrorLoad(p) ==
    PipeRead(p, "error_load", ErrorUpdates(p), "error_save", "done", ErrorEvent(p))

ErrorSave(p) ==
    PipeWrite(p, "error_save", ErrorUpdates(p), "done", ErrorEvent(p))

(* ------------------------- Socket.IO handlers --------------------------- *)

\* io.emit(event, payload): every connected client receives the events a
\* step broadcasts, whatever rooms it has joined
Receives(o) == emitted

\* subscribe_session: socket.join(`session:${sessionId}`), then getSession
\* reads the store and the current status is sent to this socket
SubscribeSession(o, s) ==
    /\ sockets.messages < MaxMessages
    /\ sockets' =
          [sockets EXCEPT
              !.messages = @ + 1,
              !.joined[o] = @ \cup {s},
              !.left[o] = @ \ {s},
              !.sent[o] = IF s \in DOMAIN loadSessions
                          THEN Append(@, emitStatus(s, loadSessions[s].status,
                                                    "Subscribed to session updates"))
                          ELSE @]
    /\ emitted' = <<>>
    /\ replied' = NoReply
    /\ UNCHANGED <<file, proc, requests, clock, nextId, deleted, deepgramConfigured, extension, chunkVars>>

\* unsubscribe_session: socket.leave(`session:${sessionId}`)
UnsubscribeSession(o, s) ==
    /\ sockets.messages < MaxMessages
    /\ sockets' =
          [sockets EXCEPT
              !.messages = @ + 1,
              !.joined[o] = @ \ {s},
              !.left[o] = IF s \in sockets.joined[o] THEN @ \cup {s} ELSE @]
    /\ emitted' = <<>>
    /\ replied' = NoReply
    /\ UNCHANGED <<file, proc, requests, clock, nextId, deleted, deepgramConfigured, extension, chunkVars>>

(* ------------------- extension: content script, background ------------- *)

\* createEvent(type, extra): { type, timestamp: Date.now(), ... }, the n-th
\* event captured
createEvent(type, n) == type \o "@" \o ToString(n)

Without(seq, i) == SubSeq(seq, 1, i - 1) \o SubSeq(seq, i + 1, Len(seq))

\* startTracking(sessionId), for a recording that has been started: nothing
\* when already tracking, else the queue is emptied and the listeners added
startTracking(s) ==
    /\ ~extension.isTracking
    /\ s \in DOMAIN file
    /\ extension' = [extension EXCEPT !.isTracking = TRUE, !.sessionId = s,
                                      !.events = <<>>]
    /\ emitted' = <<>>
    /\ replied' = NoReply
    /\ UNCHANGED <<file, proc, requests, clock, nextId, deleted, deepgramConfigured,
                   sockets, chunkVars>>

Captures ==
    /\ extension.isTracking
    /\ extension.captured < MaxEvents
    /\ emitted' = <<>>
    /\ replied' = NoReply
    /\ UNCHANGED <<file, proc, requests, clock, nextId, deleted, deepgramConfigured,
                   sockets, chunkVars>>

\* the event is pushed on trackingState.events and sent to the background
\* script as a DOM_EVENT message (which finds the sessionId of the recording
\* in chrome.storage.local)
handleClickApply(event) ==
    [extension EXCEPT !.captured = @ + 1, !.events = Append(@, event),
                      !.messages = Append(@, [event |-> event,
                                              sessionId |-> extension.sessionId])]

handleClick ==
    /\ Captures
    /\ extension' = handleClickApply(createEvent("click", extension.captured + 1))

\* a special key: the event is pushed on trackingState.events
handleKeydown ==
    /\ Captures
    /\ extension' = [extension EXCEPT
                        !.captured = @ + 1,
                        !.events = Append(@, createEvent("keydown", extension.captured + 1))]

\* sendEventBatch up to its fetch: nothing for an empty queue or no
\* sessionId, else the queue is taken and emptied and the batch is sent
sendEventBatchApply(ext) ==
    IF ext.events = <<>> \/ ext.sessionId = 0
    THEN ext
    ELSE [ext EXCEPT !.events = <<>>,
                     !.sending = Append(@, [sessionId |-> ext.sessionId,
                                            events |-> ext.events])]

\* the interval set by startTracking fires
sendEventBatch ==
    /\ extension.isTracking
    /\ Len(extension.sending) < MaxBatches
    /\ sendEventBatchApply(extension) # extension
    /\ extension' = sendEventBatchApply(extension)
    /\ emitted' = <<>>
    /\ replied' = NoReply
    /\ UNCHANGED <<file, proc, requests, clock, nextId, deleted, deepgramConfigured,
                   sockets, chunkVars>>

\* stopTracking: the interval is cleared, sendEventBatch is called (not
\* awaited) and trackingState is reset
stopTracking ==
    /\ extension.isTracking
    /\ Len(extension.sending) < MaxBatches
    /\ extension' = [sendEventBatchApply(extension) EXCEPT
                        !.isTracking = FALSE, !.sessionId = 0, !.events = <<>>]
    /\ emitted' = <<>>
    /\ replied' = NoReply
    /\ UNCHANGED <<file, proc, requests, clock, nextId, deleted, deepgramConfigured,
                   sockets, chunkVars>>

\* the POST /events of a batch reaches the server
BatchPosted(p) ==
    \E i \in DOMAIN extension.sending :
        /\ EventsRequest(p, extension.sending[i].sessionId, extension.sending[i].events)
        /\ extension' = [extension EXCEPT !.sending = Without(@, i)]

\* the fetch of a batch rejects, the request not sent: the events are put
\* back in front of the queue
BatchFails ==
    \E i \in DOMAIN extension.sending :
        /\ extension' = [extension EXCEPT
                            !.sending = Without(@, i),
                            !.events = extension.sending[i].events \o @]
        /\ emitted' = <<>>
        /\ replied' = NoReply
        /\ UNCHANGED <<file, proc, requests, clock, nextId, deleted, deepgramConfigured,
                       sockets, chunkVars>>

\* background script, DOM_EVENT: handleDOMEvent posts events: [event] for
\* the sessionId of the recording
handleDOMEvent(p) ==
    \E i \in DOMAIN extension.messages :
        /\ EventsRequest(p, extension.messages[i].sessionId,
                         <<extension.messages[i].event>>)
        /\ extension' = [extension EXCEPT !.messages = Without(@, i)]

\* ... its fetch rejects: the error is logged and the event is not sent again
RelayFails ==
    \E i \in DOMAIN extension.messages :
        /\ extension' = [extension EXCEPT !.messages = Without(@, i)]
        /\ emitted' = <<>>
        /\ replied' = NoReply
        /\ UNCHANGED <<file, proc, requests, clock, nextId, deleted, deepgramConfigured,
                       sockets, chunkVars>>

(* ------------------- SessionManager, called directly -------------------- *)

\* the records a caller passes to createSession: the one the start handler
\* makes, and one that has a title and events already
SessionInputs(t) ==
    {NewSession(t), [NewSession(t) EXCEPT !.title = "Demo", !.events = <<"a">>]}

\* createSession(session), for any sessionId: the store is read and the
\* record is set in the object read
CreateFrom(p, id, session, store) ==
    /\ FreeSlot(p)
    /\ requests < MaxCalls
    /\ requests' = requests + 1
    /\ clock' = clock + 1
    /\ proc' = [proc EXCEPT ![p] =
                  Handler("createSession", "create_save", id,
                          createSessionApply(store, id, session))]
    /\ returned' = NoReturn
    /\ emitted' = <<>>
    /\ replied' = NoReply
    /\ UNCHANGED <<file, nextId, deleted, deepgramConfigured, extension, sockets, chunksMap, disk, merged>>

CreateWith(p, id, session) == CreateFrom(p, id, session, loadSessions)

\* what loadSessions returns when fs.readFile or JSON.parse fails on a file
\* that is there: its catch takes any error for a missing file
loadSessionsFailed == NoStore

\* createSession whose read of the store fails
CreateReadFails(p, id, session) ==
    /\ file # NoStore
    /\ CreateFrom(p, id, session, loadSessionsFailed)

\* ... with the record the start handler makes
CreateLoad(p, id) == CreateWith(p, id, NewSession(clock))

\* saveSessions writes the object; createSession returns the session
CreateSave(p) ==
    /\ proc[p].pc = "create_save"
    /\ file' = saveSessions(proc[p].snap)
    /\ proc' = [proc EXCEPT ![p] = Idle]
    /\ returned' = ReturnValue("createSession", proc[p].sid, "session",
                              getSessionApply(proc[p].snap, proc[p].sid))
    /\ emitted' = <<>>
    /\ replied' = NoReply
    /\ UNCHANGED <<requests, clock, nextId, deleted, deepgramConfigured, extension, sockets, chunksMap, disk, merged>>

\* the partial records a caller passes to updateSession, by name
UpdateInputs == {"retitle", "describe", "stop", "nothing"}

Updates(name) ==
    CASE name = "retitle" -> [title |-> "Demo"]
      [] name = "describe" -> [title |-> "Tour", description |-> "A demo"]
      [] name = "stop" -> [status |-> "processing"]
      [] OTHER -> NoUpdates

\* updateSession(id, updates): the store is read; null for an unknown id
UpdateLoad(p, id, name) ==
    /\ FreeSlot(p)
    /\ requests < MaxCalls
    /\ requests' = requests + 1
    /\ IF id \in DOMAIN loadSessions
       THEN /\ proc' = [proc EXCEPT ![p] =
                  [Handler("updateSession", "update_save", id,
                           updateSessionApply(loadSessions, id, Updates(name)))
                   EXCEPT !.updates = name]]
            /\ returned' = NoReturn
       ELSE /\ proc' = [proc EXCEPT ![p] = Idle]
            /\ returned' = Return("updateSession", id, "none", "null")
    /\ emitted' = <<>>
    /\ replied' = NoReply
    /\ UNCHANGED <<file, clock, nextId, deleted, deepgramConfigured, extension, sockets, chunksMap, disk, merged>>

\* saveSessions writes the object; updateSession returns the record
UpdateSave(p) ==
    /\ proc[p].pc = "update_save"
    /\ file' = saveSessions(proc[p].snap)
    /\ proc' = [proc EXCEPT ![p] = Idle]
    /\ returned' = Return("updateSession", proc[p].sid, "none", "session")
    /\ emitted' = <<>>
    /\ replied' = NoReply
    /\ UNCHANGED <<requests, clock, nextId, deleted, deepgramConfigured, extension, sockets, chunksMap, disk, merged>>

\* the events a caller passes to appendEvents
EventLists == {<<"a", "b">>, <<"c">>, <<"a", "b", "c">>}

NotFoundError == "Session not found"

\* (an append that makes the record it does not find)
SessionNotFoundUpserted(p, id) ==
    /\ proc' = [proc EXCEPT ![p] =
                  Handler("appendEvents", "append_save", id,
                          createSessionApply(loadSessions, id, NewSession(clock)))]
    /\ returned' = NoReturn

\* throw new Error(`Session ${sessionId} not found`)
SessionNotFound(p, id) ==
    /\ proc' = [proc EXCEPT ![p] = Idle]
    /\ returned' = Return("appendEvents", id, "none", NotFoundError)

\* appendEvents(id, events): the store is read; it throws for an unknown id
AppendLoad(p, id, events) ==
    /\ FreeSlot(p)
    /\ requests < MaxCalls
    /\ requests' = requests + 1
    /\ IF id \in DOMAIN loadSessions
       THEN /\ proc' = [proc EXCEPT ![p] =
                  [Handler("appendEvents", "append_save", id,
                           appendEventsApply(loadSessions, id, events))
                   EXCEPT !.arg = events]]
            /\ returned' = NoReturn
       ELSE SessionNotFound(p, id)
    /\ emitted' = <<>>
    /\ replied' = NoReply
    /\ UNCHANGED <<file, clock, nextId, deleted, deepgramConfigured, extension, sockets, chunksMap, disk, merged>>

\* saveSessions writes the object; appendEvents returns
AppendSave(p) ==
    /\ proc[p].pc = "append_save"
    /\ file' = saveSessions(proc[p].snap)
    /\ proc' = [proc EXCEPT ![p] = Idle]
    /\ returned' = Return("appendEvents", proc[p].sid, "none", "void")
    /\ emitted' = <<>>
    /\ replied' = NoReply
    /\ UNCHANGED <<requests, clock, nextId, deleted, deepgramConfigured, extension, sockets, chunksMap, disk, merged>>

WriteError == "write failed"

\* what a later loadSessions reads after fs.writeFile has failed: the file
\* was not opened and holds what it held, or it was truncated on opening and
\* holds none or a part of the new text, which JSON.parse rejects, so that
\* loadSessions returns an empty store
FailedWrite(before) == {before, NoStore}

\* fs.writeFile rejects in saveSessions: the mutating call rejects with it
SaveFails(p) ==
    /\ proc[p].pc \in {"create_save", "update_save", "append_save"}
    /\ \E content \in FailedWrite(file) : file' = content
    /\ proc' = [proc EXCEPT ![p] = Idle]
    /\ returned' = Return(proc[p].kind, proc[p].sid, "none", WriteError)
    /\ emitted' = <<>>
    /\ replied' = NoReply
    /\ UNCHANGED <<requests, clock, nextId, deleted, deepgramConfigured, extension, sockets, chunksMap, disk, merged>>

\* getSession(id): the store is read; the record, or null
GetCall(p, id) ==
    /\ FreeSlot(p)
    /\ requests < MaxCalls
    /\ requests' = requests + 1
    /\ proc' = [proc EXCEPT ![p] = Idle]
    /\ returned' = ReturnValue("getSession", id,
                              IF id \in DOMAIN loadSessions THEN "session" ELSE "null",
                              getSessionApply(loadSessions, id))
    /\ emitted' = <<>>
    /\ replied' = NoReply
    /\ UNCHANGED <<file, clock, nextId, deleted, deepgramConfigured, extension, sockets, chunksMap, disk, merged>>

\* listSessions(): the store is read; its records, sorted
ListCall(p) ==
    /\ FreeSlot(p)
    /\ requests < MaxCalls
    /\ requests' = requests + 1
    /\ proc' = [proc EXCEPT ![p] = Idle]
    /\ returned' = ReturnValue("listSessions", 0, "sessions", listSessionsApply(loadSessions))
    /\ emitted' = <<>>
    /\ replied' = NoReply
    /\ UNCHANGED <<file, clock, nextId, deleted, deepgramConfigured, extension, sockets, chunksMap, disk, merged>>

(* ------------------------------ behaviours ----------------------------- *)

\* a request arrives and its handler makes its first read of the store
Arrive(p) ==
    \/ StartLoad(p)
    \/ \E s \in Sessions, b \in PatchBodies : PatchLoad(p, s, b)
    \/ \E s \in Sessions, e \in EventBatches : EventsLoad(p, s, e)
    \/ \E s \in Sessions, ty \in ChunkTypes, i \in ChunkIndices, last \in BOOLEAN :
          ChunkUpload(p, s, ty, i, last)
    \/ \E s \in Sessions : SessionGet(p, s)
    \/ \E s \in Sessions : DeleteLoad(p, s)
    \/ \E s \in Sessions : StopLoad(p, s)

\* an awaited call of a handler or of a run returns
Proceed(p) ==
    \/ StartSave(p)
    \/ PatchSave(p)
    \/ EventsSave(p)
    \/ EventsFile(p)
    \/ MergeRename(p)
    \/ MergePipe(p)
    \/ MergeUnlink(p)
    \/ ChunkLoad(p)
    \/ ChunkSave(p)
    \/ DeleteRm(p)
    \/ DeleteSave(p)
    \/ StopSave(p)
    \/ StopGet(p)
    \/ Transcribe(p)
    \/ TranscriptionLoad(p)
    \/ TranscriptionSave(p)
    \/ HealthCheck(p)
    \/ UnavailableLoad(p)
    \/ UnavailableSave(p)
    \/ ProcessAudio(p)
    \/ RefinedLoad(p)
    \/ RefinedSave(p)
    \/ SynthesizedLoad(p)
    \/ SynthesizedSave(p)
    \/ ErrorLoad(p)
    \/ ErrorSave(p)

Next == \E p \in Procs : Arrive(p) \/ Proceed(p)

\* requests arrive at any time, also while other handlers are in flight
Spec == Init /\ [][Next]_vars

\* ... with dashboard clients subscribing and unsubscribing
NextSocket ==
    \/ Next
    \/ \E o \in Observers, s \in Sessions : SubscribeSession(o, s)
    \/ \E o \in Observers, s \in Sessions : UnsubscribeSession(o, s)

SocketSpec == Init /\ [][NextSocket]_vars

\* ... where every awaited call returns and its continuation runs: the
\* event loop leaves no handler and no run waiting for ever
FairSpec == Spec /\ \A p \in Procs : WF_vars(Proceed(p))

\* no request handler and no pipeline run is in flight
Quiet == \A q \in Procs : Free(q)

NextSerial ==
    \E p \in Procs :
        \/ Quiet /\ StartLoad(p)
        \/ Quiet /\ \E s \in Sessions, b \in PatchBodies : PatchLoad(p, s, b)
        \/ Quiet /\ \E s \in Sessions, e \in EventBatches : EventsLoad(p, s, e)
        \/ Quiet /\ \E s \in Sessions, ty \in ChunkTypes, i \in ChunkIndices, last \in BOOLEAN :
                      ChunkUpload(p, s, ty, i, last)
        \/ Quiet /\ \E s \in Sessions : SessionGet(p, s)
        \/ Quiet /\ \E s \in Sessions : DeleteLoad(p, s)
        \/ Quiet /\ \E s \in Sessions : StopLoad(p, s)
        \/ Proceed(p)

\* the behaviours without any overlap: a request arrives only after the
\* handler of the one before, and the pipeline run it has started, have ended
SerialSpec == Init /\ [][NextSerial]_vars

\* the calls made on the chunk aggregator directly, by any callers
NextChunk ==
    \/ \E s \in Sessions, ty \in ChunkTypes, i \in ChunkIndices : AddChunk(s, ty, i)
    \/ \E p \in Procs :
          \/ \E s \in Sessions, ty \in ChunkTypes : MergeCall(p, s, ty)
          \/ MergeRename(p)
          \/ MergePipe(p)
          \/ MergeUnlink(p)

ChunkSpec == Init /\ [][NextChunk]_vars

\* ... one call at a time
NextChunkSerial ==
    \/ Quiet /\ \E s \in Sessions, ty \in ChunkTypes, i \in ChunkIndices : AddChunk(s, ty, i)
    \/ \E p \in Procs :
          \/ Quiet /\ \E s \in Sessions, ty \in ChunkTypes : MergeCall(p, s, ty)
          \/ MergeRename(p)
          \/ MergePipe(p)
          \/ MergeUnlink(p)

ChunkSerialSpec == Init /\ [][NextChunkSerial]_vars

\* the calls made on the session store directly, one call at a time
NextStore ==
    \E p \in Procs :
        \/ Quiet /\ \E id \in Sessions : CreateLoad(p, id)
        \/ CreateSave(p)
        \/ Quiet /\ \E id \in Sessions, name \in UpdateInputs : UpdateLoad(p, id, name)
        \/ UpdateSave(p)
        \/ Quiet /\ \E id \in Sessions, events \in EventLists : AppendLoad(p, id, events)
        \/ AppendSave(p)

StoreSpec == Init /\ [][NextStore]_vars

\* ... with the reads of the store, and with writes of the file that fail
NextStoreRead ==
    \E p \in Procs :
        \/ Quiet /\ \E id \in Sessions, session \in SessionInputs(clock) :
                      CreateWith(p, id, session)
        \/ CreateSave(p)
        \/ Quiet /\ \E id \in Sessions, name \in UpdateInputs : UpdateLoad(p, id, name)
        \/ UpdateSave(p)
        \/ Quiet /\ \E id \in Sessions : GetCall(p, id)
        \/ Quiet /\ ListCall(p)
        \/ SaveFails(p)
        \/ Quiet /\ \E id \in Sessions, session \in SessionInputs(clock) :
                      CreateReadFails(p, id, session)

StoreReadSpec == Init /\ [][NextStoreRead]_vars

\* a recording made with the extension: the session is started, the content
\* script tracks it, and the events reach the server by the background
\* script and by the batches
NextExtension ==
    \/ \E p \in Procs :
          \/ StartLoad(p)
          \/ StartSave(p)
          \/ handleDOMEvent(p)
          \/ BatchPosted(p)
          \/ EventsSave(p)
          \/ EventsFile(p)
    \/ \E s \in Sessions : startTracking(s)
    \/ handleClick
    \/ handleKeydown
    \/ sendEventBatch
    \/ stopTracking
    \/ BatchFails
    \/ RelayFails

ExtensionSpec == Init /\ [][NextExtension]_vars

(* ------------------------------ properties ----------------------------- *)

Range(seq) == {seq[i] : i \in DOMAIN seq}

Last(seq) == seq[Len(seq)]

IsPrefix(a, b) == Len(a) <= Len(b) /\ SubSeq(b, 1, Len(a)) = a

\* the slot p takes the step
Steps(p) == proc'[p] # proc[p]

\* the sessions persisted before and after the step
Kept == DOMAIN file \cap DOMAIN file'

\* C1: no lost update between update(s, {status: "processing"}) and
\* update(s, {videoPath: x}) of concurrent callers: the write of the path
\* update leaves the persisted status as it is, and the write of the status
\* update leaves the persisted videoPath as it is, so that the record holds
\* both once both are written.
C1_NoLostUpdate ==
    [][\A p \in Procs :
         LET s == proc[p].sid IN
         (Steps(p) /\ s \in DOMAIN file) =>
            /\ (proc[p].pc = "chunk_save" /\ proc[p].fields = {"videoPath"}) =>
                   /\ file'[s].videoPath = MergedPath("video")
                   /\ file'[s].status = file[s].status
            /\ proc[p].pc = "stop_save" =>
                   /\ file'[s].status = "processing"
                   /\ file'[s].videoPath = file[s].videoPath]_vars

\* C2: mutations of different sessions do not overwrite each other: a step
\* changes or removes the persisted record of a session only if it is the
\* step of an operation on that session.
C2_OtherSessionsKept ==
    [][\A s \in DOMAIN file :
         (s \notin DOMAIN file' \/ file'[s] # file[s]) =>
             \E p \in Procs : Steps(p) /\ proc[p].sid = s]_vars

\* the state an event announces is in the store
Written(e) ==
    /\ e.sessionId \in DOMAIN file
    /\ LET session == file[e.sessionId] IN
       CASE e.event = "session_status" -> session.status = e.status
         [] e.event = "transcription_ready" -> session.transcription = e.payload
         [] e.event = "refinement_ready" -> session.refinedScript = e.payload
         [] e.event = "synthesis_ready" -> session.synthesizedAudioPath = e.payload
         [] e.event = "session_complete" -> session.status = "completed"
         [] e.event = "error" -> session.error = e.payload
         [] OTHER -> TRUE

PipelineEvents ==
    {"session_status", "transcription_ready", "refinement_ready", "synthesis_ready",
     "session_complete", "error"}

\* C3: write before broadcast: at the moment a pipeline event is broadcast,
\* the state it announces has been written to the store.
C3_WriteBeforeBroadcast ==
    \A i \in DOMAIN emitted :
        emitted[i].event \in PipelineEvents => Written(emitted[i])

Rank(status) ==
    CASE status = "recording" -> 0
      [] status = "processing" -> 1
      [] status = "transcribing" -> 2
      [] status = "refining" -> 3
      [] status = "synthesizing" -> 4
      [] status = "completed" -> 5
      [] OTHER -> 6

\* C4: the persisted status never moves backward in recording < processing <
\* transcribing < refining < synthesizing < completed, but for a transition
\* into error and the restart from error to processing.
C4_StatusMonotonic ==
    [][\A s \in Kept :
         LET old == file[s].status
             new == file'[s].status
         IN \/ new = "error"
            \/ old = "error" /\ new = "processing"
            \/ old # "error" /\ Rank(old) <= Rank(new)]_vars

ReadPcs ==
    {"transcription_load", "unavailable_load", "refined_load", "synthesized_load",
     "error_load"}

\* C5: a run whose store update finds its session gone stops there: it is
\* done, and the step broadcasts no status and no stage completion.
C5_DeletionIsFatal ==
    [][\A p \in Procs :
         (Steps(p) /\ proc[p].pc \in ReadPcs /\ proc[p].sid \notin DOMAIN file) =>
            /\ proc'[p].pc = "done"
            /\ \A i \in DOMAIN emitted' : emitted'[i].event = "error"]_vars

\* C6: no resurrection: a session whose deletion has been acknowledged is
\* not in the persisted store.
C6_NoResurrection ==
    \A s \in deleted : s \notin DOMAIN file

\* C7: endTime is written at most once per session, and only by the
\* transition that takes the status out of recording.
C7_EndTimeOnce ==
    [][\A s \in Kept :
         file'[s].endTime # file[s].endTime =>
            /\ file[s].endTime = NoTime
            /\ file[s].status = "recording"
            /\ file'[s].status # "recording"]_vars

\* C8: events only grows: between two consecutive persisted states of a
\* session the earlier events sequence is a prefix of the later one.
C8_EventsOnlyGrow ==
    [][\A s \in Kept : IsPrefix(file[s].events, file'[s].events)]_vars

\* the runs whose probe of the enrichment gateway answered unavailable
Unavailable(p) == proc[p].kind = "pipeline" /\ proc[p].healthy = "no"

\* C9: a run whose probe of the enrichment gateway answered unavailable
\* broadcasts neither refining nor synthesizing (nor their results), persists
\* neither status, never calls processAudio and writes no refinedScript; it
\* only completes the session: it ends with session_complete, and its last
\* write, made unless the session is gone from the store, is the one that
\* persists status completed with processedAt.
C9_UnavailableSkipsEnrichment ==
    \A p \in Procs :
        Unavailable(p) =>
            /\ Range(proc[p].said) \cap {"refining", "synthesizing", "refinement_ready",
                                         "synthesis_ready"} = {}
            /\ Range(proc[p].wrote) \cap {"refining", "synthesizing"} = {}
            /\ "processAudio" \notin Range(proc[p].calls)
            /\ proc[p].fields \cap {"refinedScript", "synthesizedAudioPath"} = {}
            /\ proc[p].pc \in {"unavailable_load", "unavailable_save", "done"}
            /\ proc[p].pc = "done" =>
                  /\ Last(proc[p].said) = "session_complete"
                  /\ "unavailable_load" \notin proc[p].missed =>
                        /\ Last(proc[p].wrote) = "completed"
                        /\ "processedAt" \in proc[p].fields

C9_Witness ==
    \E p \in Procs :
        /\ Unavailable(p)
        /\ proc[p].pc = "done"
        /\ proc[p].missed = {}
        /\ Last(proc[p].wrote) = "completed"
        /\ proc[p].sid \in DOMAIN file
        /\ file[proc[p].sid].status = "completed"
        /\ file[proc[p].sid].refinedScript = NoScript

\* the runs that ended with both gateways available, no call failing and
\* the session in the store at each of their updates
Clean(p) ==
    /\ proc[p].kind = "pipeline"
    /\ proc[p].pc = "done"
    /\ proc[p].healthy = "yes"
    /\ proc[p].errMsg = Undefined
    /\ proc[p].missed = {}

\* C10: in a run with both gateways available and no stage failure the
\* persisted status takes the values processing, transcribing (when
\* transcription runs), refining, synthesizing, completed in that order, and
\* the run ends having persisted status completed with processedAt.
C10_StatusProgression ==
    \A p \in Procs :
        Clean(p) =>
            /\ proc[p].wrote =
                 <<"processing">>
                 \o (IF "transcribeFile" \in Range(proc[p].calls)
                     THEN <<"transcribing">> ELSE <<>>)
                 \o <<"refining", "synthesizing", "completed">>
            /\ "processedAt" \in proc[p].fields

\* the runs one of whose gateway calls has thrown
Failed(p) == proc[p].kind = "pipeline" /\ proc[p].errMsg # Undefined

FailedCall(p) ==
    IF proc[p].errMsg = TranscribeError THEN "transcribeFile" ELSE "processAudio"

Count(seq, x) == Cardinality({i \in DOMAIN seq : seq[i] = x})

InMerge(p) == proc[p].pc \in {"merge_rename", "merge_pipe", "merge_unlink"}

\* the mergeChunks call of slot p ends with this step
MergeEnds(p) == InMerge(p) /\ ~InMerge(p)'

\* ... and returns the path of the artifact
MergeReturns(p) ==
    /\ MergeEnds(p)
    /\ IF proc[p].kind = "chunk" THEN proc'[p].pc = "chunk_load"
       ELSE returned' = Return("mergeChunks", proc[p].sid, proc[p].type,
                               MergedPath(proc[p].type))

RECURSIVE AscendingPayloads(_)
\* the payloads of the chunks with the given indices, in ascending order of index
AscendingPayloads(indices) ==
    IF indices = {} THEN <<>>
    ELSE LET least == CHOOSE i \in indices : \A j \in indices : i <= j
         IN Payload(least) \o AscendingPayloads(indices \ {least})

Indices(chunks) == {chunks[i].index : i \in DOMAIN chunks}

\* C12: whatever the order in which addChunk was called for chunks of
\* distinct indices of one session and type (each stored on disk), a
\* following mergeChunks, with no other call during it, returns, and the
\* artifact then holds the payloads of the tracked chunks in ascending
\* order of index.
C12_MergeInIndexOrder ==
    [][\A p \in Procs :
         (MergeEnds(p) /\ proc[p].fresh) =>
            LET s == proc[p].sid
                type == proc[p].type
            IN /\ MergeReturns(p)
               /\ MergedFile(s, type) \in DOMAIN disk'
               /\ disk'[MergedFile(s, type)] =
                     AscendingPayloads(Indices(chunksMap[s][type]))]_vars

C12_Witness ==
    /\ returned = Return("mergeChunks", 1, "video", MergedPath("video"))
    /\ MergedFile(1, "video") \in DOMAIN disk
    /\ disk[MergedFile(1, "video")] = Payload(0) \o Payload(1) \o Payload(2)

\* C13: when mergeChunks returns the artifact, for one tracked chunk as for
\* several, no descriptor is tracked any more for its session and type (so
\* that the next mergeChunks finds nothing tracked unless addChunk is called
\* in between).
C13_MergeClearsTracking ==
    [][\A p \in Procs :
         MergeReturns(p) => Len(chunksMap'[proc[p].sid][proc[p].type]) = 0]_vars

\* the artifact holds the chunk at the place of its index: it holds its
\* payload, and what it holds is whole and in ascending order of index
MergedInOrder(files, s, chunk) ==
    /\ MergedFile(s, chunk.type) \in DOMAIN files
    /\ LET content == files[MergedFile(s, chunk.type)] IN
       /\ \E i \in DOMAIN content : content[i] = chunk.index
       /\ \A i \in DOMAIN content : content[i] # Hole
       /\ \A i, j \in DOMAIN content : i < j => content[i] <= content[j]

\* C14: a chunk recorded by addChunk while a mergeChunks of its session and
\* type is in flight is, when that mergeChunks ends, either in the artifact
\* at the place of its index or still tracked.
C14_LateChunkKept ==
    [][\A p \in Procs :
         MergeEnds(p) =>
            \A chunk \in proc[p].late :
               \/ chunk \in Range(chunksMap'[proc[p].sid][proc[p].type])
               \/ MergedInOrder(disk', proc[p].sid, chunk)]_vars

\* no chunk is tracked for the session and type
NothingTracked(s, type) == s \notin DOMAIN chunksMap \/ chunksMap[s][type] = <<>>

\* C15: mergeChunks for a session and type with no tracked chunk (the
\* session never seen, or its array of that type empty) throws the no-chunks
\* error at once, writes nothing on disk and leaves the tracking as it is.
C15_NoChunksFails ==
    [][\A p \in Procs, s \in Sessions, type \in ChunkTypes :
         (MergeCall(p, s, type) /\ NothingTracked(s, type)) =>
            /\ returned' = Return("mergeChunks", s, type, NoChunksError)
            /\ disk' = disk
            /\ chunksMap' = chunksMap
            /\ ~InMerge(p)']_vars

\* a merge repeated after the merge of several chunks has emptied the array
C15_Witness ==
    /\ returned.call = "mergeChunks"
    /\ returned.result = NoChunksError
    /\ returned.sessionId \in DOMAIN chunksMap
    /\ chunksMap[returned.sessionId][returned.type] = <<>>
    /\ MergedFile(returned.sessionId, returned.type) \in DOMAIN disk
    /\ Len(disk[MergedFile(returned.sessionId, returned.type)]) > 1

\* C16: the descriptors tracked for one session and type have pairwise
\* distinct indices, whatever chunk uploads were received.
C16_IndicesUnique ==
    \A s \in DOMAIN chunksMap :
        \A type \in ChunkTypes :
            LET chunks == chunksMap[s][type] IN
            \A i, j \in DOMAIN chunks : i # j => chunks[i].index # chunks[j].index

\* C17: createSession for a sessionId that is in the store fails with a
\* duplicate-session error and leaves the record of that id as it is.
C17_DuplicateRejected ==
    [][\A p \in Procs, id \in Sessions :
         /\ (CreateLoad(p, id) /\ id \in DOMAIN file) => Free(p)'
         /\ (CreateSave(p) /\ proc[p].sid = id /\ id \in DOMAIN file) =>
                file'[id] = file[id]]_vars

\* C18: updateSession(id, updates), no other call overlapping, is a shallow
\* merge: when it has written, every field named in updates has the value
\* given, every other field of the record is as it was, every other session's
\* record is as it was and no session is added or removed; for an id that
\* is not in the store it returns its not-found result (null) at once and
\* writes nothing.
C18_UpdateShallowMerge ==
    [][\A p \in Procs, id \in Sessions :
         /\ (UpdateSave(p) /\ proc[p].sid = id) =>
               LET updates == Updates(proc[p].updates) IN
               /\ DOMAIN file' = DOMAIN file
               /\ \A f \in DOMAIN file[id] :
                     IF f \in DOMAIN updates THEN file'[id][f] = updates[f]
                                             ELSE file'[id][f] = file[id][f]
               /\ \A s \in DOMAIN file \ {id} : file'[s] = file[s]
         /\ \A name \in UpdateInputs :
               (UpdateLoad(p, id, name) /\ id \notin DOMAIN file) =>
                  /\ returned' = Return("updateSession", id, "none", "null")
                  /\ Free(p)'
                  /\ file' = file]_vars

\* an update of two fields of one session, written while another session is
\* in the store
C18_Witness ==
    \E id \in DOMAIN file :
        /\ returned = Return("updateSession", id, "none", "session")
        /\ file[id].title = "Tour"
        /\ file[id].description = "A demo"
        /\ file[id].status = "recording"
        /\ DOMAIN file = Sessions

\* the ways of cutting a sequence in two
Cuts(seq) == {<<SubSeq(seq, 1, k), SubSeq(seq, k + 1, Len(seq))>> : k \in 0 .. Len(seq)}

\* C19: appendEvents, no other call overlapping, leaves the events the
\* session had followed by the new events in the order given, and appending
\* a list in one call leaves the store that appending a first part of it
\* and then the rest leaves ([a, b] then [c] as [a, b, c]).
C19_AppendAssociative ==
    [][\A p \in Procs :
         AppendSave(p) =>
            LET id == proc[p].sid
                events == proc[p].arg
            IN /\ file'[id].events = file[id].events \o events
               /\ \A cut \in Cuts(events) :
                     appendEventsApply(appendEventsApply(file, id, cut[1]), id, cut[2])
                        = file']_vars

\* one session was sent [a, b] and then [c], the other [a, b, c] in one call
C19_Witness ==
    /\ \E s, u \in DOMAIN file :
          /\ s # u
          /\ file[s].events = <<"a", "b", "c">>
          /\ file[u].events = <<"a", "b", "c">>
    /\ requests = 5
    /\ returned.call = "appendEvents"
    /\ returned.result = "void"

\* C20: appendEvents for a sessionId that is not in the store throws its
\* not-found error at once: the store file is as it was, and no write of
\* the call is to come (no record is made for the id).
C20_AppendNotFound ==
    [][\A p \in Procs, id \in Sessions, events \in EventLists :
         (AppendLoad(p, id, events) /\ id \notin DOMAIN file) =>
            /\ returned' = Return("appendEvents", id, "none", NotFoundError)
            /\ Free(p)'
            /\ file' = file
            /\ id \notin DOMAIN file']_vars

\* an append to an unknown id has failed while another session is stored
C20_Witness ==
    /\ returned.call = "appendEvents"
    /\ returned.result = NotFoundError
    /\ returned.sessionId \notin DOMAIN file
    /\ file # NoStore

\* the files of the session's directory
Directory(files, s) == {f \in DOMAIN files : f.dir = s}

C22_ListSortedByStartTime ==
    [][\A p \in Procs :
         ListCall(p) =>
            LET list == returned'.value IN
            /\ Len(list) = Cardinality(DOMAIN file)
            /\ {list[i].sessionId : i \in DOMAIN list} = DOMAIN file
            /\ \A i \in DOMAIN list : list[i].session = file[list[i].sessionId]
            /\ \A i, j \in DOMAIN list :
                  i < j => list[i].session.startTime >= list[j].session.startTime]_vars

\* a list of two sessions, the one created second in front
C22_Witness ==
    /\ returned.call = "listSessions"
    /\ Len(returned.value) = 2
    /\ returned.value[1].session.startTime > returned.value[2].session.startTime
    /\ returned.value[1].sessionId < returned.value[2].sessionId

\* C23: getSession right after a createSession(session) of the same id that
\* has returned gives a record equal to session in every field; getSession
\* of an id that is not in the store returns null.
C23_CreateGetRoundTrip ==
    [][\A p \in Procs, id \in Sessions :
         GetCall(p, id) =>
            /\ (/\ returned.call = "createSession"
                /\ returned.result = "session"
                /\ returned.sessionId = id) =>
                  /\ returned'.result = "session"
                  /\ returned'.value = returned.value
            /\ id \notin DOMAIN file =>
                  /\ returned'.result = "null"
                  /\ returned'.value = <<>>]_vars

\* a session created with a title and events, with another session in the
\* store, has been read back
C23_Witness ==
    /\ returned.call = "getSession"
    /\ returned.result = "session"
    /\ Cardinality(DOMAIN file) = 2
    /\ returned.value[1].session.title = "Demo"
    /\ returned.value[1].session.events = <<"a">>
    /\ returned.value[1].session.startTime = clock - 1

\* C24: when the write of the store fails in a mutating call, the call fails
\* and the file still holds the complete content it held before the call.
C24_FailedWriteKeepsStore ==
    [][\A p \in Procs :
         SaveFails(p) =>
            /\ returned'.result = WriteError
            /\ file' = file]_vars

\* C25: the stop handler answers 200 (status processing) in the step that
\* starts the run, before any gateway call of the run has returned; no later
\* step of the run, to completion or to failure, sends a response.
C25_StopAnswersBeforeRun ==
    [][\A p \in Procs :
         /\ (StopGet(p) /\ proc[p].sid \in DOMAIN file) =>
               /\ replied' = Reply("stop", proc[p].sid, 200)
               /\ proc'[p].kind = "pipeline"
               /\ proc'[p].pc \in {"transcribe", "health"}
               /\ proc'[p].calls = <<>>
         /\ (proc[p].kind = "pipeline" /\ ~Free(p) /\ proc'[p] # proc[p]) =>
               replied' = NoReply]_vars

\* a run has failed and has recorded it, after its stop was answered
C25_Witness ==
    \E p \in Procs :
        /\ proc[p].kind = "pipeline"
        /\ proc[p].pc = "done"
        /\ proc[p].errMsg # Undefined
        /\ proc[p].sid \in DOMAIN file
        /\ file[proc[p].sid].status = "error"
        /\ replied = NoReply

\* the handler in slot p has answered 404 for session s and has ended, and
\* the store and the tracked chunks are as they were
NotFound(p, s) ==
    /\ replied'.code = 404
    /\ replied'.sessionId = s
    /\ Free(p)'
    /\ file' = file
    /\ chunksMap' = chunksMap

\* C26: a request that names a session which is not in the store (chunk
\* upload, events, stop, get, delete, patch), no other request overlapping,
\* is answered 404, starts no run, and leaves the store and the tracked
\* chunks as they are.
C26_AbsentSessionNotFound ==
    [][\A p \in Procs, s \in Sessions :
         s \notin DOMAIN file =>
            /\ (\E ty \in ChunkTypes, i \in ChunkIndices, last \in BOOLEAN :
                   ChunkUpload(p, s, ty, i, last)) => NotFound(p, s)
            /\ (\E e \in EventBatches : EventsLoad(p, s, e)) => NotFound(p, s)
            /\ (\E b \in PatchBodies : PatchLoad(p, s, b)) => NotFound(p, s)
            /\ SessionGet(p, s) => NotFound(p, s)
            /\ DeleteLoad(p, s) => NotFound(p, s)
            /\ StopLoad(p, s) =>
                  /\ proc'[p].pc = "stop_get"
                  /\ file' = file
                  /\ chunksMap' = chunksMap
            /\ (StopGet(p) /\ proc[p].sid = s) => NotFound(p, s)]_vars

PathField(type) == IF type = "video" THEN "videoPath" ELSE "audioPath"

\* every media path of the store is that of a merge that has returned
PathAfterMerge ==
    \A s \in DOMAIN file, ty \in ChunkTypes :
        file[s][PathField(ty)] # Undefined =>
            /\ file[s][PathField(ty)] = MergedPath(ty)
            /\ <<s, ty>> \in merged

\* C27: the upload of a last chunk of type T, for a session that is in the
\* store when the handler updates it, is answered only in the step that
\* writes the store, after mergeChunks has returned for the session and T,
\* and the record written has the path of the artifact for T; no step of
\* the merge and no read of the store answers it.  No record ever holds a
\* media path of a type whose merge has not returned.
C27_AckAfterMergeAndPath ==
    [][/\ \A p \in Procs :
            /\ ChunkSave(p) =>
                  /\ replied' = Reply("chunk", proc[p].sid, 200)
                  /\ <<proc[p].sid, proc[p].type>> \in merged
                  /\ file'[proc[p].sid][PathField(proc[p].type)] = MergedPath(proc[p].type)
            /\ (\E s \in Sessions, ty \in ChunkTypes, i \in ChunkIndices :
                   ChunkUpload(p, s, ty, i, TRUE)) => replied'.code # 200
            /\ (proc[p].kind = "chunk" /\ (MergeRename(p) \/ MergePipe(p) \/ MergeUnlink(p))) =>
                  replied'.code # 200
            /\ (ChunkLoad(p) /\ proc[p].sid \in DOMAIN file) =>
                  /\ replied' = NoReply
                  /\ <<proc[p].sid, proc[p].type>> \in merged
       /\ PathAfterMerge']_vars

\* the upload of the last of two chunks has been answered: the artifact
\* holds both and the record has its path
C27_Witness ==
    \E s \in Sessions, ty \in ChunkTypes :
        /\ replied = Reply("chunk", s, 200)
        /\ s \in DOMAIN file
        /\ file[s][PathField(ty)] = MergedPath(ty)
        /\ <<s, ty>> \in merged
        /\ MergedFile(s, ty) \in DOMAIN disk
        /\ Len(disk[MergedFile(s, ty)]) = 2

SkipsTranscription(p) ==
    /\ Len(proc[p].said) >= 3
    /\ SubSeq(proc[p].said, 1, 3) = <<"processing", "transcribing", "transcribing">>
    /\ "transcription_ready" \notin Range(proc[p].said)
    /\ "transcribeFile" \notin Range(proc[p].calls)
    /\ proc[p].calls # <<>> => proc[p].calls[1] = "healthCheck"
    /\ "transcription" \notin proc[p].fields
    /\ proc[p].pc \notin {"transcribe", "transcription_load", "transcription_save"}
    /\ proc[p].errMsg # TranscribeError

\* C29: when the transcription gateway is not configured, a run broadcasts
\* that transcription is skipped and goes on to the readiness probe of the
\* enrichment gateway: it makes no transcribe call, writes no transcription
\* field and does not fail for that reason, whether the session has audio or not.
C29_UnconfiguredSkipsTranscription ==
    [][~deepgramConfigured =>
         /\ \A p \in Procs :
               /\ proc'[p].kind = "pipeline" => SkipsTranscription(p)'
               /\ (StopGet(p) /\ proc'[p].kind = "pipeline") =>
                     /\ proc'[p].pc = "health"
                     /\ Last(emitted') = emitStatus(proc[p].sid, "transcribing",
                                                    "Deepgram not configured, skipping...")
         /\ \A s \in DOMAIN file' : file'[s].transcription = Undefined]_vars

\* without Deepgram, a run on a session that has its audio has completed
C29_Witness ==
    /\ ~deepgramConfigured
    /\ \E p \in Procs :
          /\ Clean(p)
          /\ proc[p].audioPath = MergedPath("audio")
          /\ proc[p].sid \in DOMAIN file
          /\ file[proc[p].sid].status = "completed"
          /\ file[proc[p].sid].audioPath = MergedPath("audio")

Terminal == {"completed", "error"}

\* the stop of session s has just been answered 200
StopAccepted(s) == replied = Reply("stop", s, 200)

\* the session is gone or its persisted status is completed or error
Ended(s) == s \in DOMAIN file => file[s].status \in Terminal

\* every run ends: once a stop is accepted, the session's persisted status
\* becomes completed or error (or the session is gone)
RunsEnd == \A s \in Sessions : StopAccepted(s) ~> Ended(s)

\* the write of an event submission, of a chunk upload or of a patch leaves
\* a persisted status completed or error as it is
TerminalKept ==
    [][\A p \in Procs :
         (EventsSave(p) \/ ChunkSave(p) \/ PatchSave(p)) =>
            \A s \in Kept :
               file[s].status \in Terminal => file'[s].status = file[s].status]_vars

\* C30: with every awaited call returning, a session whose stop was accepted
\* and which is not deleted comes to the persisted status completed or
\* error, and keeps it until a stop is called on it again, whatever events,
\* chunk uploads and patches overlap with the run.
C30_RunsEndAndStayEnded == RunsEnd /\ TerminalKept

\* C31: a persisted session has its error field set only while its status
\* is error, also after a stop is called again on a session that is in error.
C31_ErrorOnlyInError ==
    \A s \in DOMAIN file : file[s].error # Undefined => file[s].status = "error"

\* every persisted session that is completed has its processedAt
CompletedHasStamp ==
    \A s \in DOMAIN file : file[s].status = "completed" => file[s].processedAt # Undefined

\* C32: a session whose persisted status is completed has its processedAt,
\* and session_complete is broadcast only for a session whose persisted
\* status is completed when it is broadcast.
C32_CompleteMeansCompleted ==
    [][/\ CompletedHasStamp'
       /\ \A i \in DOMAIN emitted' :
             emitted'[i].event = "session_complete" =>
                /\ emitted'[i].sessionId \in DOMAIN file'
                /\ file'[emitted'[i].sessionId].status = "completed"]_vars

\* C33: when a run makes its processAudio call, the call carries the run's
\* raw transcript and all the events the store holds for the session then,
\* in their order.
C33_ProcessAudioGetsAllEvents ==
    [][\A p \in Procs :
         (/\ proc[p].pc # "process_audio"
          /\ proc'[p].pc = "process_audio"
          /\ proc[p].sid \in DOMAIN file) =>
            /\ ProcessAudioRequest(p)'.rawTranscript =
                  (IF "transcribeFile" \in Range(proc[p].calls) THEN TranscriptText ELSE "")
            /\ ProcessAudioRequest(p)'.domEvents = file[proc[p].sid].events]_vars

\* C34: a client that has joined session channels receives no pipeline
\* event of a session whose channel it has not joined, and none of a
\* session whose channel it has left.
C34_ScopedToChannel ==
    [][\A o \in Observers :
         \A i \in DOMAIN Receives(o)' :
            LET e == Receives(o)'[i] IN
            e.event \in PipelineEvents =>
               /\ sockets'.joined[o] # {} => e.sessionId \in sockets'.joined[o]
               /\ e.sessionId \notin sockets'.left[o]]_vars

\* the run of slot p is in flight
Running(p) == proc[p].kind = "pipeline" /\ ~Free(p)

\* C35: at most one pipeline run is in flight for a session at any time.
C35_OneRunPerSession ==
    \A p, q \in Procs :
        (p # q /\ Running(p) /\ Running(q)) => proc[p].sid # proc[q].sid

\* C36: a persisted session that has its synthesizedAudioPath has its
\* refinedScript, and a session that is completed once an enriched run on it
\* has ended has both.
C36_SynthesizedHasScript ==
    /\ \A s \in DOMAIN file :
          file[s].synthesizedAudioPath # Undefined => file[s].refinedScript # NoScript
    /\ \A p \in Procs :
          (Clean(p) /\ proc[p].sid \in DOMAIN file
                    /\ file[proc[p].sid].status = "completed") =>
             /\ file[proc[p].sid].synthesizedAudioPath # Undefined
             /\ file[proc[p].sid].refinedScript # NoScript

\* C37: the write of a mutating call, one call at a time, leaves in the
\* store every session that was persisted before it, also when the call's
\* read of the store has failed.
C37_FailedReadKeepsSessions ==
    [][\A p \in Procs :
         (CreateSave(p) \/ UpdateSave(p) \/ AppendSave(p)) =>
            \A s \in DOMAIN file : s \in DOMAIN file']_vars

\* C38: the write of a patch changes the title and the description of the
\* session it names and nothing else: the session's other fields, the other
\* sessions and the set of sessions are as they were before the write, also
\* when other handlers and runs have written since the patch read the store.
C38_PatchFrame ==
    [][\A p \in Procs :
         PatchSave(p) =>
            /\ DOMAIN file' = DOMAIN file
            /\ \A s \in DOMAIN file :
                  IF s = proc[p].sid
                  THEN \A f \in DOMAIN file[s] \ {"title", "description"} :
                          file'[s][f] = file[s][f]
                  ELSE file'[s] = file[s]]_vars

\* C40: after each successful event submission for a session (its handler
\* answers 200), the dom_events.json of the session holds every event
\* submitted for it so far: the events sequence the store holds for it.
C40_SnapshotHoldsAllEvents ==
    [][\A p \in Procs :
         (EventsFile(p) /\ replied'.code = 200 /\ proc[p].sid \in DOMAIN file') =>
            /\ EventsPath(proc[p].sid) \in DOMAIN disk'
            /\ disk'[EventsPath(proc[p].sid)] = file'[proc[p].sid].events]_vars

\* the DOM events the content script has captured
Captured ==
    {createEvent(type, n) : type \in {"click", "keydown"}, n \in 1 .. extension.captured}

Occurrences(seq, e) == Cardinality({i \in DOMAIN seq : seq[i] = e})

\* C39: each DOM event the content script captures while tracking is in the
\* events sequence of the session at most once, whether it went by the
\* background script's DOM_EVENT relay, by a batch, or by a batch sent again
\* after a failed send.
C39_EventAppendedOnce ==
    \A s \in DOMAIN file, e \in Captured : Occurrences(file[s].events, e) <= 1

=============================================================================
